---- MODULE Spec2Model ----
(***************************************************************************)
(* starry-vm: checks on user-space pointers (src/src/ptr.rs) against the   *)
(* address-space provider (src/src/addrspace.rs).                          *)
(*                                                                         *)
(* usize is scaled to an address space of NumPages pages of PAGE_SIZE_4K   *)
(* bytes; every usize operation of the source is taken modulo AddrSpace.   *)
(* An arithmetic overflow panics in a build with overflow checks and wraps *)
(* in a build without them: overflow_checks says which build is running.   *)
(* Spec follows one call at a time; SpecReentrant lets scans be suspended   *)
(* and others run meanwhile, on the same or on another context; SpecHandle *)
(* applies the accessors of the handle.                                    *)
(***************************************************************************)
EXTENDS Integers, Sequences, FiniteSets, TLC

\* ------------------------------------------------------------ constants
PAGE_SIZE_4K == 4096

\* the address space has NumPages pages: usize is 0 .. AddrSpace - 1
NumPages == 3
\* user memory differs from zero on at most the first MaxBuf bytes at start
MaxBuf == 2
\* start addresses lie at most MaxBack bytes below a page boundary
MaxBack == 2
\* provider calls followed within one call of an operation
MaxCalls == 5
\* calls that are suspended (re-entered or overtaken by another context) at a time
MaxSuspended == 1

AddrSpace == NumPages * PAGE_SIZE_4K
Pages == 0 .. (NumPages - 1)
\* execution contexts (harts), each with its own ACCESSING_USER_MEM
Contexts == {0, 1}

READ == "READ"
WRITE == "WRITE"
EFAULT == "EFAULT"
ENOMEM == "ENOMEM"

\* MappingFlags values the callers pass
FlagSets == {{READ}, {READ, WRITE}}

\* core::alloc::Layout
Layout(s, a) == [size |-> s, align |-> a]

\* element types T: (), u8, u16, [u8; 3] and a two-page array of u8
ElemTypes ==
    {Layout(0, 1), Layout(1, 1), Layout(2, 2), Layout(3, 1), Layout(2 * PAGE_SIZE_4K, 1)}

\* layouts handed to check_region
RegionLayouts ==
    {Layout(s, a) : s \in {0, 8, PAGE_SIZE_4K, PAGE_SIZE_4K + 1}, a \in {1, 8}}

\* start addresses: at a page start, one byte in, and just below the next page
ScanStarts ==
    {p * PAGE_SIZE_4K + o : p \in Pages,
                            o \in {0, 1} \cup {PAGE_SIZE_4K - d : d \in 1 .. MaxBack}}

RegionStarts ==
    {p * PAGE_SIZE_4K + o : p \in Pages, o \in {0, 1, PAGE_SIZE_4K - 8}}

\* what the provider's populate_area answers
PopulateAnswers == {"Ok", EFAULT, ENOMEM}

\* ---------------------------------------------------------------- state
VARIABLES
    ACCESSING_USER_MEM,  \* per-context flag (percpu)
    overflow_checks,     \* the build: TRUE panics on overflow, FALSE wraps
    perm,                \* provider: the MappingFlags each page permits
    populate_answer,     \* provider: what populate_area answers
    mem,                 \* user memory: the addresses holding a non-zero byte
    backed,              \* provider: the pages given backing since the call began
    pc,                  \* position of the running call
    op,                  \* the operation that is running
    cpu,                 \* the context the call runs on
    start,               \* argument
    layout,              \* argument of check_region, Layout::new::<T>() of the scan
    access_flags,        \* argument
    page,                \* local of check_null_terminated
    len,                 \* local of check_null_terminated
    closure_ret,         \* what the closure given to access_user_memory returned
    entry_flag,          \* the calling context's flag when the call started
    calls,               \* provider calls made by the running call, in order
    reads,               \* raw reads made by the running call, in order
    result,              \* what the call returned
    suspended,           \* per context, the calls that are under way but not
                         \* running now, the innermost first
    handle,              \* a UserPtr<A, T>: its address and its element type
    out                  \* what the last accessor called on a handle returned

vars == <<ACCESSING_USER_MEM, overflow_checks, perm, populate_answer, mem, backed, pc, op,
          cpu, start, layout, access_flags, page, len, closure_ret, entry_flag,
          calls, reads, result, suspended, handle, out>>

env == <<overflow_checks, suspended, handle, out>>
args == <<op, cpu, start, layout, access_flags, perm, populate_answer, mem, entry_flag>>

\* LinuxResult values
Ok == [kind |-> "Ok"]
OkPair(p, l) == [kind |-> "Ok", ptr |-> p, len |-> l]
Err(e) == [kind |-> "Err", errno |-> e]
NoResult == [kind |-> "none"]

\* ----------------------------------------------------- usize arithmetic
Wrap(x) == (x + AddrSpace) % AddrSpace
Overflows(x) == x < 0 \/ x >= AddrSpace

\* start.as_usize() & align != 0: the mask without the `- 1`
Misaligned_MaskIsAlign(addr, align) == (addr \div align) % 2 = 1

\* start.as_usize() & (align - 1) != 0, align a power of two
Misaligned(addr, align) == addr % align # 0

align_down_4k(addr) == addr - (addr % PAGE_SIZE_4K)

\* memory_addr::align_up: (addr + align - 1) & !(align - 1)
align_up_4k(addr) == align_down_4k(Wrap(addr + (PAGE_SIZE_4K - 1)))
align_up_4k_overflows(addr) == Overflows(addr + (PAGE_SIZE_4K - 1))

\* ------------------------------------------------------------- provider
\* the pages of the range of `size` bytes at `s` (running over the top wraps)
RangePages(s, size) ==
    IF size = 0 THEN {}
    ELSE {q % NumPages : q \in (s \div PAGE_SIZE_4K) .. ((s + size - 1) \div PAGE_SIZE_4K)}

\* AddrSpaceProvider::check_region_access: every page of the range permits flags
check_region_access(s, size, flags) ==
    \A p \in RangePages(s, size) : flags \subseteq perm[p]

AccessCall(s, size, flags) ==
    [fn |-> "check_region_access", start |-> s, size |-> size, flags |-> flags,
     ret |-> IF check_region_access(s, size, flags) THEN "granted" ELSE "denied"]

\* AddrSpaceProvider::populate_area
populate_area(s, size) == populate_answer

PopulateCall(s, size) ==
    [fn |-> "populate_area", start |-> s, size |-> size, flags |-> {},
     ret |-> populate_area(s, size)]

\* the backing after populate_area call q: a successful call backs every page
\* of its range
Populated(q) == IF q.ret = "Ok" THEN backed \cup RangePages(q.start, q.size) ELSE backed

\* the provider states of a call: each page permits exactly the flags asked, or
\* lacks the strongest of them
PermMaps(flags) ==
    {[p \in Pages |-> IF p \in G THEN flags ELSE flags \ {IF WRITE \in flags THEN WRITE ELSE READ}]
        : G \in SUBSET Pages}

\* the user memories of a scan
Memories(s) == SUBSET {Wrap(s + i) : i \in 0 .. (MaxBuf - 1)}

\* ------------------------------------------------------------ user memory
Footprint(addr, size) == {Wrap(addr + j) : j \in 0 .. (size - 1)}

\* the pages a read of `size` bytes at addr touches: a page without backing
\* faults, and the host's fault handler gives it backing before the read ends
ReadPages(addr, size) == RangePages(addr, size)

\* ptr.read_volatile() == T::default(): every byte of the element is zero
IsDefault(addr, size) == Footprint(addr, size) \cap mem = {}

\* is_accessing_user_memory(): ACCESSING_USER_MEM.read_current() on context c
is_accessing_user_memory(c) == ACCESSING_USER_MEM[c]

\* ---------------------------------------------------------------- handle
\* UserPtr { data: *mut T, .. }: the address and the element type T
UserPtr(addr, t) == [data |-> addr, elem |-> t]

\* From<usize>: value as *mut T
from(value, t) == UserPtr(value, t)

\* address(): VirtAddr::from_mut_ptr_of(self.data)
address(h) == h.data

\* cast with the address rounded down to the alignment of U
cast_Realign(h, u) == UserPtr(h.data - (h.data % u.align), u)

\* cast::<U>(): self.data as *mut U
cast(h, u) == UserPtr(h.data, u)

\* is_null(): self.data.is_null()
is_null(h) == h.data = 0

\* Option<Self>
None == [kind |-> "None"]
Some(h) == [kind |-> "Some", value |-> h]

\* nullable(): if self.is_null() { None } else { Some(self) }
nullable(h) == IF is_null(h) THEN None ELSE Some(h)

\* the addresses handles are made from
HandleAddrs ==
    {0, 1, 2, 8, PAGE_SIZE_4K - 1, PAGE_SIZE_4K, PAGE_SIZE_4K + 1, AddrSpace - 1}

\* ------------------------------------------------------------------ Init
Init ==
    /\ ACCESSING_USER_MEM = [c \in Contexts |-> FALSE]
    /\ overflow_checks \in BOOLEAN
    /\ perm = [p \in Pages |-> {}]
    /\ populate_answer = "Ok"
    /\ mem = {}
    /\ backed = {}
    /\ pc = "idle"
    /\ op = "none"
    /\ cpu = 0
    /\ start = 0
    /\ layout = Layout(0, 1)
    /\ access_flags = {}
    /\ page = 0
    /\ len = 0
    /\ closure_ret = "none"
    /\ entry_flag = FALSE
    /\ calls = <<>>
    /\ reads = <<>>
    /\ result = NoResult
    /\ suspended = [c \in Contexts |-> <<>>]
    /\ handle = from(0, Layout(1, 1))
    /\ out = [fn |-> "none"]

\* ---------------------------------------------------------- check_region
\* lines 63-71: the call and the alignment test
check_region(c, s, l, f, pm, pa) ==
    /\ pc = "idle"
    /\ op' = "check_region"
    /\ cpu' = c
    /\ start' = s
    /\ layout' = l
    /\ access_flags' = f
    /\ perm' = pm
    /\ populate_answer' = pa
    /\ entry_flag' = is_accessing_user_memory(c)
    /\ IF Misaligned(s, l.align)
       THEN /\ result' = Err(EFAULT)
            /\ pc' = "done"
       ELSE /\ result' = NoResult
            /\ pc' = "cr_access"
    /\ UNCHANGED <<ACCESSING_USER_MEM, env, mem, backed, page, len, closure_ret, calls, reads>>

\* CrAccess without the return at line 77: populate_area follows a denial
CrAccess_NoStop ==
    /\ pc = "cr_access"
    /\ IF Overflows(start + layout.size) /\ overflow_checks
       THEN /\ pc' = "panicked"
            /\ UNCHANGED <<calls, result>>
       ELSE /\ calls' = Append(calls, AccessCall(start, layout.size, access_flags))
            /\ pc' = "cr_populate"
            /\ UNCHANGED result
    /\ UNCHANGED <<ACCESSING_USER_MEM, env, args, backed, page, len, closure_ret, reads>>

\* lines 73-78: VirtAddrRange::from_start_size and the access query
CrAccess ==
    /\ pc = "cr_access"
    /\ IF Overflows(start + layout.size) /\ overflow_checks
       THEN /\ pc' = "panicked"
            /\ UNCHANGED <<calls, result>>
       ELSE LET q == AccessCall(start, layout.size, access_flags)
            IN /\ calls' = Append(calls, q)
               /\ IF q.ret = "denied"
                  THEN /\ result' = Err(EFAULT)
                       /\ pc' = "done"
                  ELSE /\ pc' = "cr_populate"
                       /\ UNCHANGED result
    /\ UNCHANGED <<ACCESSING_USER_MEM, env, args, backed, page, len, closure_ret, reads>>

\* CrPopulate with every failure of populate_area turned into EFAULT
\* (map_err in place of `?`)
CrPopulate_Collapse ==
    /\ pc = "cr_populate"
    /\ LET page_start == align_down_4k(start)
           sum == start + layout.size
           page_end == align_up_4k(Wrap(sum))
           overflow == \/ Overflows(sum)
                       \/ align_up_4k_overflows(Wrap(sum))
                       \/ Overflows(page_end - page_start)
       IN IF overflow /\ overflow_checks
          THEN /\ pc' = "panicked"
               /\ UNCHANGED <<calls, result, backed>>
          ELSE LET q == PopulateCall(page_start, Wrap(page_end - page_start))
               IN /\ calls' = Append(calls, q)
                  /\ backed' = Populated(q)
                  /\ result' = IF q.ret = "Ok" THEN Ok ELSE Err(EFAULT)
                  /\ pc' = "done"
    /\ UNCHANGED <<ACCESSING_USER_MEM, env, args, page, len, closure_ret, reads>>

\* lines 80-84: the page-aligned superset and populate_area
CrPopulate ==
    /\ pc = "cr_populate"
    /\ LET page_start == align_down_4k(start)
           sum == start + layout.size
           page_end == align_up_4k(Wrap(sum))
           overflow == \/ Overflows(sum)
                       \/ align_up_4k_overflows(Wrap(sum))
                       \/ Overflows(page_end - page_start)
       IN IF overflow /\ overflow_checks
          THEN /\ pc' = "panicked"
               /\ UNCHANGED <<calls, result, backed>>
          ELSE LET q == PopulateCall(page_start, Wrap(page_end - page_start))
               IN /\ calls' = Append(calls, q)
                  /\ backed' = Populated(q)
                  /\ result' = IF q.ret = "Ok" THEN Ok ELSE Err(q.ret)
                  /\ pc' = "done"
    /\ UNCHANGED <<ACCESSING_USER_MEM, env, args, page, len, closure_ret, reads>>

\* ------------------------------------------------- check_null_terminated
\* start.add(len + 1): the pointer one element too far
ElemAddr_OffByOne(i) == Wrap(start + (i + 1) * layout.size)

\* start.add(len): the address of element i, and whether computing it leaves
\* the address space
ElemAddr(i) == Wrap(start + i * layout.size)
ElemAddrOverflows(i) == Overflows(start + i * layout.size)

\* check_null_terminated without the alignment test of lines 104-107
check_null_terminated_NoAlignTest(c, s, t, f, pm, m) ==
    /\ pc = "idle"
    /\ op' = "check_null_terminated"
    /\ cpu' = c
    /\ start' = s
    /\ layout' = t
    /\ access_flags' = f
    /\ perm' = pm
    /\ mem' = m
    /\ entry_flag' = is_accessing_user_memory(c)
    /\ result' = NoResult
    /\ page' = align_down_4k(s)
    /\ pc' = "cnt_enter"
    /\ len' = 0
    /\ UNCHANGED <<ACCESSING_USER_MEM, env, populate_answer, backed, closure_ret, calls, reads>>

\* lines 100-114: the call, the alignment test, the locals
check_null_terminated(c, s, t, f, pm, m) ==
    /\ pc = "idle"
    /\ op' = "check_null_terminated"
    /\ cpu' = c
    /\ start' = s
    /\ layout' = t
    /\ access_flags' = f
    /\ perm' = pm
    /\ mem' = m
    /\ entry_flag' = is_accessing_user_memory(c)
    /\ IF Misaligned(s, t.align)
       THEN /\ result' = Err(EFAULT)
            /\ pc' = "done"
            /\ UNCHANGED page
       ELSE /\ result' = NoResult
            /\ page' = align_down_4k(s)
            /\ pc' = "cnt_enter"
    /\ len' = 0
    /\ UNCHANGED <<ACCESSING_USER_MEM, env, populate_answer, backed, closure_ret, calls, reads>>

\* access_user_memory on one flag shared by all contexts (a plain static in
\* place of the per-CPU one)
access_user_memory_Shared ==
    /\ pc = "cnt_enter"
    /\ ACCESSING_USER_MEM' = [c \in Contexts |-> TRUE]
    /\ pc' = "cnt_loop"
    /\ UNCHANGED <<env, args, backed, page, len, closure_ret, calls, reads, result>>

\* lines 20-22: access_user_memory sets the flag and calls the closure
access_user_memory ==
    /\ pc = "cnt_enter"
    /\ ACCESSING_USER_MEM' = [ACCESSING_USER_MEM EXCEPT ![cpu] = TRUE]
    /\ pc' = "cnt_loop"
    /\ UNCHANGED <<env, args, backed, page, len, closure_ret, calls, reads, result>>

\* `>` for `>=`: a page is queried only once the pointer is past its first byte
PageReached_Strict(ptr, pg) == ptr > pg

\* line 121: while ptr as usize >= page.as_ptr() as usize
PageReached(ptr, pg) == ptr >= pg

\* CntQuery without the return at line 133: a denied page is stepped over
CntQuery_IgnoreDenied ==
    /\ pc = "cnt_loop"
    /\ PageReached(ElemAddr(len), page)
    /\ Len(calls) < MaxCalls
    /\ IF Overflows(page + PAGE_SIZE_4K) /\ overflow_checks
       THEN /\ pc' = "panicked"
            /\ UNCHANGED <<page, calls>>
       ELSE /\ calls' = Append(calls, AccessCall(page, PAGE_SIZE_4K, access_flags))
            /\ page' = Wrap(page + PAGE_SIZE_4K)
            /\ UNCHANGED pc
    /\ UNCHANGED <<ACCESSING_USER_MEM, env, args, backed, len, closure_ret, reads, result>>

\* CntQuery with populate_area called on the page once it is granted
CntQuery_Populate ==
    /\ pc = "cnt_loop"
    /\ PageReached(ElemAddr(len), page)
    /\ Len(calls) < MaxCalls
    /\ IF Overflows(page + PAGE_SIZE_4K) /\ overflow_checks
       THEN /\ pc' = "panicked"
            /\ UNCHANGED <<page, closure_ret, calls, backed>>
       ELSE LET q == AccessCall(page, PAGE_SIZE_4K, access_flags)
            IN IF q.ret = "denied"
               THEN /\ calls' = Append(calls, q)
                    /\ closure_ret' = EFAULT
                    /\ pc' = "cnt_exit"
                    /\ UNCHANGED <<page, backed>>
               ELSE /\ calls' = calls \o <<q, PopulateCall(page, PAGE_SIZE_4K)>>
                    /\ backed' = Populated(PopulateCall(page, PAGE_SIZE_4K))
                    /\ page' = Wrap(page + PAGE_SIZE_4K)
                    /\ UNCHANGED <<pc, closure_ret>>
    /\ UNCHANGED <<ACCESSING_USER_MEM, env, args, len, reads, result>>

\* lines 121-137: one round of the inner loop, the permission query of `page`
CntQuery ==
    /\ pc = "cnt_loop"
    /\ PageReached(ElemAddr(len), page)
    /\ Len(calls) < MaxCalls
    /\ IF Overflows(page + PAGE_SIZE_4K) /\ overflow_checks
       THEN /\ pc' = "panicked"
            /\ UNCHANGED <<page, closure_ret, calls>>
       ELSE LET q == AccessCall(page, PAGE_SIZE_4K, access_flags)
            IN /\ calls' = Append(calls, q)
               /\ IF q.ret = "denied"
                  THEN /\ closure_ret' = EFAULT
                       /\ pc' = "cnt_exit"
                       /\ UNCHANGED page
                  ELSE /\ page' = Wrap(page + PAGE_SIZE_4K)
                       /\ UNCHANGED <<pc, closure_ret>>
    /\ UNCHANGED <<ACCESSING_USER_MEM, env, args, backed, len, reads, result>>

\* lines 139-146: the raw read of element `len`
CntRead ==
    /\ pc = "cnt_loop"
    /\ ~PageReached(ElemAddr(len), page)
    /\ reads' = Append(reads, [index |-> len, addr |-> ElemAddr(len),
                               flag |-> is_accessing_user_memory(cpu),
                               ncalls |-> Len(calls),
                               backed |-> ReadPages(ElemAddr(len), layout.size) \subseteq backed])
    /\ backed' = backed \cup ReadPages(ElemAddr(len), layout.size)
    /\ IF IsDefault(ElemAddr(len), layout.size)
       THEN /\ closure_ret' = "Ok"
            /\ pc' = "cnt_exit"
            /\ UNCHANGED len
       ELSE /\ len' = len + 1
            /\ UNCHANGED <<pc, closure_ret>>
    /\ UNCHANGED <<ACCESSING_USER_MEM, env, args, page, calls, result>>

\* line 120: start.add(len) past the end of the address space is undefined
\* behaviour: the pointer wraps (CntQuery and CntRead go on with the wrapped
\* address) or the program is lost
CntPtrOverflow ==
    /\ pc = "cnt_loop"
    /\ ElemAddrOverflows(len)
    /\ pc' = "undefined"
    /\ UNCHANGED <<ACCESSING_USER_MEM, env, args, backed, page, len, closure_ret, calls, reads, result>>

\* access_user_memory_exit with the flag cleared only when the closure succeeded (the error
\* leaving access_user_memory before `*v = false`)
access_user_memory_exit_SkipOnErr ==
    /\ pc = "cnt_exit"
    /\ ACCESSING_USER_MEM' =
           [ACCESSING_USER_MEM EXCEPT ![cpu] = IF closure_ret = "Ok" THEN FALSE ELSE @]
    /\ result' = IF closure_ret = "Ok" THEN OkPair(start, len) ELSE Err(closure_ret)
    /\ pc' = "done"
    /\ UNCHANGED <<env, args, backed, page, len, closure_ret, calls, reads>>

\* access_user_memory_exit with the closure's error dropped (`?` missing at line 147): the
\* length counted so far is returned
access_user_memory_exit_PartialLength ==
    /\ pc = "cnt_exit"
    /\ ACCESSING_USER_MEM' = [ACCESSING_USER_MEM EXCEPT ![cpu] = FALSE]
    /\ result' = OkPair(start, len)
    /\ pc' = "done"
    /\ UNCHANGED <<env, args, backed, page, len, closure_ret, calls, reads>>

\* lines 24-26 and 147-149: the flag is cleared, the closure's result returned
access_user_memory_exit ==
    /\ pc = "cnt_exit"
    /\ ACCESSING_USER_MEM' = [ACCESSING_USER_MEM EXCEPT ![cpu] = FALSE]
    /\ result' = IF closure_ret = "Ok" THEN OkPair(start, len) ELSE Err(closure_ret)
    /\ pc' = "done"
    /\ UNCHANGED <<env, args, backed, page, len, closure_ret, calls, reads>>

\* the caller takes the result; the next call starts afresh
Return ==
    /\ pc = "done"
    /\ pc' = "idle"
    /\ op' = "none"
    /\ cpu' = 0
    /\ start' = 0
    /\ layout' = Layout(0, 1)
    /\ access_flags' = {}
    /\ perm' = [p \in Pages |-> {}]
    /\ populate_answer' = "Ok"
    /\ mem' = {}
    /\ backed' = {}
    /\ page' = 0
    /\ len' = 0
    /\ closure_ret' = "none"
    /\ entry_flag' = FALSE
    /\ calls' = <<>>
    /\ reads' = <<>>
    /\ result' = NoResult
    /\ UNCHANGED <<ACCESSING_USER_MEM, env>>

CallRegion ==
    /\ pc = "idle"
    /\ \E c \in Contexts, s \in RegionStarts, l \in RegionLayouts, f \in FlagSets,
          pa \in PopulateAnswers :
           \E pm \in PermMaps(f) : check_region(c, s, l, f, pm, pa)

CallScan ==
    /\ pc = "idle"
    /\ \E c \in Contexts, s \in ScanStarts, t \in ElemTypes, f \in FlagSets :
           \E pm \in PermMaps(f), m \in Memories(s) : check_null_terminated(c, s, t, f, pm, m)

Next ==
    \/ CallRegion
    \/ CrAccess
    \/ CrPopulate
    \/ CallScan
    \/ access_user_memory
    \/ CntQuery
    \/ CntRead
    \/ CntPtrOverflow
    \/ access_user_memory_exit
    \/ Return

Spec == Init /\ [][Next]_vars

\* ------------------------------------------------- suspended calls
\* The provider callback (line 129) and the page fault a raw read may raise
\* (line 141) run code of the host on the calling context, and other contexts
\* run on their own: a call is suspended where it stands, other calls run, and
\* it is resumed later. On one context the calls nest: the innermost call is
\* resumed first.

\* the running call: its arguments, its locals, its position
Frame ==
    [pc |-> pc, op |-> op, cpu |-> cpu, start |-> start, layout |-> layout,
     access_flags |-> access_flags, perm |-> perm, populate_answer |-> populate_answer,
     mem |-> mem, backed |-> backed, page |-> page, len |-> len, closure_ret |-> closure_ret,
     entry_flag |-> entry_flag, calls |-> calls, reads |-> reads, result |-> result]

NumSuspended ==
    Cardinality(UNION {{<<c, i>> : i \in 1 .. Len(suspended[c])} : c \in Contexts})

\* the running scan is left where it stands: before, inside or after the
\* closure given to access_user_memory
Suspend ==
    /\ pc \in {"cnt_enter", "cnt_loop", "cnt_exit"}
    /\ NumSuspended < MaxSuspended
    /\ suspended' = [suspended EXCEPT ![cpu] = <<Frame>> \o @]
    /\ pc' = "idle"
    /\ op' = "none"
    /\ cpu' = 0
    /\ start' = 0
    /\ layout' = Layout(0, 1)
    /\ access_flags' = {}
    /\ perm' = [p \in Pages |-> {}]
    /\ populate_answer' = "Ok"
    /\ mem' = {}
    /\ backed' = {}
    /\ page' = 0
    /\ len' = 0
    /\ closure_ret' = "none"
    /\ entry_flag' = FALSE
    /\ calls' = <<>>
    /\ reads' = <<>>
    /\ result' = NoResult
    /\ UNCHANGED <<ACCESSING_USER_MEM, overflow_checks, handle, out>>

\* the innermost suspended call of context c goes on
Resume(c) ==
    /\ pc = "idle"
    /\ suspended[c] # <<>>
    /\ LET fr == Head(suspended[c])
       IN /\ pc' = fr.pc
          /\ op' = fr.op
          /\ cpu' = fr.cpu
          /\ start' = fr.start
          /\ layout' = fr.layout
          /\ access_flags' = fr.access_flags
          /\ perm' = fr.perm
          /\ populate_answer' = fr.populate_answer
          /\ mem' = fr.mem
          /\ backed' = fr.backed
          /\ page' = fr.page
          /\ len' = fr.len
          /\ closure_ret' = fr.closure_ret
          /\ entry_flag' = fr.entry_flag
          /\ calls' = fr.calls
          /\ reads' = fr.reads
          /\ result' = fr.result
    /\ suspended' = [suspended EXCEPT ![c] = Tail(@)]
    /\ UNCHANGED <<ACCESSING_USER_MEM, overflow_checks, handle, out>>

ResumeSuspended ==
    /\ pc = "idle"
    /\ \E c \in Contexts : Resume(c)

\* the scans followed while calls are suspended: a byte string that starts on
\* the last byte of page 0, of length 0 or 1, page 1 readable or not
ReentrantStart == PAGE_SIZE_4K - 1
ReentrantPerms ==
    {[p \in Pages |-> IF p \in G THEN {READ} ELSE {}] : G \in {Pages, Pages \ {1}}}
ReentrantMemories == {{}, {ReentrantStart}}

CallScanReentrant ==
    /\ pc = "idle"
    /\ \E c \in Contexts, pm \in ReentrantPerms, m \in ReentrantMemories :
           check_null_terminated(c, ReentrantStart, Layout(1, 1), {READ}, pm, m)

NextReentrant ==
    \/ CallScanReentrant
    \/ access_user_memory
    \/ CntQuery
    \/ CntRead
    \/ access_user_memory_exit
    \/ Return
    \/ Suspend
    \/ ResumeSuspended

SpecReentrant == Init /\ [][NextReentrant]_vars

\* -------------------------------------------------- the handle accessors
call_state ==
    <<ACCESSING_USER_MEM, overflow_checks, perm, populate_answer, mem, backed, pc, op, cpu,
      start, layout, access_flags, page, len, closure_ret, entry_flag, calls,
      reads, result, suspended>>

\* UserPtr::from(value)
FromUsize ==
    /\ \E value \in HandleAddrs, t \in ElemTypes :
           /\ handle' = from(value, t)
           /\ out' = [fn |-> "from", value |-> value]
    /\ UNCHANGED call_state

\* handle.cast::<U>()
Cast ==
    /\ \E u \in ElemTypes :
           /\ handle' = cast(handle, u)
           /\ out' = [fn |-> "cast", self |-> handle, to |-> u, value |-> cast(handle, u)]
    /\ UNCHANGED call_state

\* handle.is_null()
IsNull ==
    /\ out' = [fn |-> "is_null", self |-> handle, value |-> is_null(handle)]
    /\ UNCHANGED <<call_state, handle>>

\* handle.nullable()
Nullable ==
    /\ out' = [fn |-> "nullable", self |-> handle, value |-> nullable(handle)]
    /\ UNCHANGED <<call_state, handle>>

\* handle.address()
Address ==
    /\ out' = [fn |-> "address", self |-> handle, value |-> address(handle)]
    /\ UNCHANGED <<call_state, handle>>

NextHandle ==
    \/ FromUsize
    \/ Cast
    \/ IsNull
    \/ Nullable
    \/ Address

SpecHandle == Init /\ [][NextHandle]_vars

\* ================================================================ claims
IsScan == op = "check_null_terminated"
IsRegion == op = "check_region"
Returned == pc = "done"

IsAccessCall(q) == q.fn = "check_region_access"
IsPopulateCall(q) == q.fn = "populate_area"
Queries == SelectSeq(calls, IsAccessCall)
Populates == SelectSeq(calls, IsPopulateCall)
PageOf(addr) == addr \div PAGE_SIZE_4K
Denied(q) == IsAccessCall(q) /\ q.ret = "denied"
Granted(q) == IsAccessCall(q) /\ q.ret = "granted"
SomeDenied == \E j \in 1 .. Len(calls) : Denied(calls[j])

\* ---------------------------------------------------------------- C1
\* C1: a call of check_region or check_null_terminated that starts with the
\* calling context's flag false has it false again when it returns, whatever
\* the outcome; while check_region runs the flag is never true; the other
\* contexts' flags stay false.
C1_FlagFalseOnReturn ==
    /\ (Returned /\ ~entry_flag) => ~is_accessing_user_memory(cpu)
    /\ (IsRegion /\ ~entry_flag) => ~is_accessing_user_memory(cpu)
    /\ \A c \in Contexts \ {cpu} : ~is_accessing_user_memory(c)

\* a scan that read an element, then met a denied page, has returned
C1_Witness ==
    /\ IsScan /\ Returned /\ ~entry_flag
    /\ result = Err(EFAULT)
    /\ reads # <<>>
    /\ Len(Queries) >= 2
    /\ cpu = 1

\* ------------------------------------------------- the scanned buffer
\* element i lies wholly inside the address space
ElemInSpace(i) == start + (i + 1) * layout.size <= AddrSpace
ElemStart(i) == start + i * layout.size
ElemBytes(i) == ElemStart(i) .. (ElemStart(i) + layout.size - 1)
\* element i equals T::default()
IsSentinel(i) == ElemInSpace(i) /\ ElemBytes(i) \cap mem = {}
\* memory is zero past the first MaxBuf bytes, so the first sentinel, if any,
\* has an index of at most MaxBuf
IsFirstSentinel(k) == IsSentinel(k) /\ \A i \in 0 .. (k - 1) : ~IsSentinel(i)
HasSentinel == \E k \in 0 .. MaxBuf : IsFirstSentinel(k)
FirstSentinel == CHOOSE k \in 0 .. MaxBuf : IsFirstSentinel(k)
\* the pages holding a byte of elements 0 .. k, the page of start among them
SpanPages(k) == {PageOf(b) : b \in start .. (ElemStart(k) + layout.size - 1)} \cup {PageOf(start)}
Permitted(p) == p \in Pages /\ access_flags \subseteq perm[p]
ScanAligned == start % layout.align = 0

\* ---------------------------------------------------------------- C2
\* C2 (as claimed): every byte touched by a raw read of the scan lies on a
\* page that check_region_access granted earlier in the same call.
C2_ReadsOnCheckedPages ==
    IsScan =>
        \A j \in 1 .. Len(reads) :
            \A b \in Footprint(reads[j].addr, layout.size) :
                \E n \in 1 .. reads[j].ncalls :
                    Granted(calls[n]) /\ PageOf(calls[n].start) = PageOf(b)

\* ---------------------------------------------------------------- C3
\* C3: when element k is the first sentinel of the buffer, the raw reads
\* are those of elements 0, 1, 2, ... in this order, each once, none of them
\* past k, and all of 0 .. k once the scan has returned Ok; no page queried
\* starts above the last byte of element k.
C3_NeverPastSentinel ==
    (IsScan /\ HasSentinel) =>
        LET k == FirstSentinel IN
        /\ Len(reads) <= k + 1
        /\ \A j \in 1 .. Len(reads) :
              /\ reads[j].index = j - 1
              /\ reads[j].addr = start + (j - 1) * layout.size
        /\ \A n \in 1 .. Len(calls) :
              /\ IsAccessCall(calls[n])
              /\ calls[n].start <= ElemStart(k) + layout.size
              /\ (layout.size > 0 => calls[n].start < ElemStart(k) + layout.size)
        /\ (Returned /\ result.kind = "Ok") => Len(reads) = k + 1

\* a scan of three elements over a page boundary has returned Ok
C3_Witness ==
    /\ IsScan /\ Returned /\ HasSentinel
    /\ result.kind = "Ok"
    /\ FirstSentinel = 2
    /\ Len(reads) = 3
    /\ Len(Queries) = 2

\* ---------------------------------------------------------------- C4
\* C4 (as claimed): for an aligned start whose first sentinel is element k,
\* with every page spanning elements 0 .. k permitted, the call ends by
\* returning Ok((start, k)).
C4_ReturnsStartAndLength ==
    (/\ IsScan
     /\ pc \in {"done", "panicked", "undefined"}
     /\ ScanAligned
     /\ HasSentinel
     /\ \A p \in SpanPages(FirstSentinel) : Permitted(p))
        => result = OkPair(start, FirstSentinel)

\* ---------------------------------------------------------------- C5
\* C5: once check_region_access has denied the page containing start, that
\* query is the only provider call of the scan, no raw read has been made,
\* and the scan is returning EFAULT.
C5_FirstPageDenied ==
    (/\ IsScan
     /\ \E n \in 1 .. Len(calls) :
            Denied(calls[n]) /\ calls[n].start = align_down_4k(start))
        => /\ Len(calls) = 1
           /\ calls[1].size = PAGE_SIZE_4K
           /\ reads = <<>>
           /\ pc \in {"cnt_exit", "done"}
           /\ closure_ret = EFAULT
           /\ Returned => result = Err(EFAULT)

\* the scan has returned after the denial of its first page
C5_Witness ==
    /\ IsScan /\ Returned
    /\ Len(calls) = 1
    /\ Denied(calls[1])
    /\ calls[1].start = align_down_4k(start)
    /\ mem # {}

\* ---------------------------------------------------------------- C6
\* element i starts below page boundary b and element i + 1 at or above it
LastBelow(i, b) == ElemStart(i) < b /\ b <= ElemStart(i + 1)
DeniedAt(b) == \E n \in 1 .. Len(calls) : Denied(calls[n]) /\ calls[n].start = b

\* C6: when element i is the last element that starts on a permitted page,
\* is not the sentinel, element i + 1 starts on the next page, and
\* check_region_access has denied that page, the scan is returning EFAULT,
\* that denial is its last provider call, and no element past i has been read.
C6_DeniedAtBoundary ==
    IsScan =>
        \A i \in 0 .. MaxBuf :
            LET b == align_down_4k(ElemStart(i)) + PAGE_SIZE_4K IN
            (/\ ElemInSpace(i + 1)
             /\ LastBelow(i, b)
             /\ Permitted(PageOf(ElemStart(i)))
             /\ ~IsSentinel(i)
             /\ DeniedAt(b))
                => /\ \A j \in 1 .. Len(reads) : reads[j].index <= i /\ reads[j].addr < b
                   /\ Denied(calls[Len(calls)])
                   /\ pc \in {"cnt_exit", "done"}
                   /\ closure_ret = EFAULT
                   /\ Returned => result = Err(EFAULT)

\* two elements were read on the first page, the next page was denied
C6_Witness ==
    /\ IsScan /\ Returned
    /\ layout.size = 1
    /\ Len(reads) = 2
    /\ ~IsSentinel(1)
    /\ LastBelow(1, PAGE_SIZE_4K)
    /\ DeniedAt(PAGE_SIZE_4K)
    /\ result = Err(EFAULT)

\* ---------------------------------------------------------------- C7
\* C7: a scan that has returned after a denied page returned Err, which
\* carries an error number and neither pointer nor length; a scan that has
\* returned Ok((ptr, len)) met no denial, ptr is start, and its last raw read
\* was that of element len, which equalled the sentinel.
C7_NoPartialLength ==
    (IsScan /\ Returned) =>
        /\ result.kind \in {"Ok", "Err"}
        /\ SomeDenied => result.kind = "Err"
        /\ result.kind = "Err" => DOMAIN result = {"kind", "errno"}
        /\ result.kind = "Ok" =>
              /\ DOMAIN result = {"kind", "ptr", "len"}
              /\ result.ptr = start
              /\ ~SomeDenied
              /\ reads # <<>>
              /\ LET r == reads[Len(reads)] IN
                    /\ r.index = result.len
                    /\ r.addr = Wrap(start + result.len * layout.size)
                    /\ {Wrap(r.addr + d) : d \in 0 .. (layout.size - 1)} \cap mem = {}

\* a scan has returned Err after reading elements
C7_Witness ==
    /\ IsScan /\ Returned
    /\ SomeDenied
    /\ Len(reads) >= 2
    /\ result.kind = "Err"

\* ---------------------------------------------------------------- C8
RegionAligned == start % layout.align = 0
\* the provider permits access_flags on every byte of [start, start + size)
RegionPermitted ==
    layout.size > 0 =>
        \A p \in PageOf(start) .. PageOf(start + layout.size - 1) : Permitted(p)
\* the page-aligned superset [align_down_4k(start), align_up_4k(start + size))
SupersetStart == start - (start % PAGE_SIZE_4K)
SupersetEnd ==
    LET e == start + layout.size
    IN IF e % PAGE_SIZE_4K = 0 THEN e ELSE e + (PAGE_SIZE_4K - (e % PAGE_SIZE_4K))

\* C8 (as claimed): check_region ends by returning Ok exactly when start is
\* aligned, the provider grants access_flags over [start, start + size) and
\* populate_area succeeds; it then made one access query over exactly that
\* range and one populate_area call over the page-aligned superset.
C8_RegionOkIff ==
    (IsRegion /\ pc \in {"done", "panicked"}) =>
        /\ result = Ok <=> (RegionAligned /\ RegionPermitted /\ populate_answer = "Ok")
        /\ result = Ok =>
              /\ Len(calls) = 2
              /\ IsAccessCall(calls[1])
              /\ calls[1].start = start /\ calls[1].size = layout.size
              /\ calls[1].flags = access_flags
              /\ IsPopulateCall(calls[2])
              /\ calls[2].start = SupersetStart
              /\ calls[2].size = SupersetEnd - SupersetStart

\* ---------------------------------------------------------------- C9
\* C9: for a start that layout.align() does not divide, check_region has
\* returned EFAULT as soon as it was called and calls neither provider
\* function, whatever the provider permits and whatever populate_area answers.
C9_MisalignedRegion ==
    (IsRegion /\ start % layout.align # 0) =>
        /\ Returned
        /\ result = Err(EFAULT)
        /\ calls = <<>>

\* a misaligned start on a region the provider permits and can populate
C9_Witness ==
    /\ IsRegion /\ Returned
    /\ start % layout.align # 0
    /\ RegionPermitted
    /\ layout.size > 0
    /\ populate_answer = "Ok"
    /\ result = Err(EFAULT)

\* --------------------------------------------------------------- C10
\* C10 (as claimed): every failure returned by check_region and
\* check_null_terminated is EFAULT.
C10_EveryFailureIsEFAULT ==
    (Returned /\ result.kind = "Err") => result.errno = EFAULT

PopulateFailed ==
    /\ calls # <<>>
    /\ IsPopulateCall(calls[Len(calls)])
    /\ calls[Len(calls)].ret # "Ok"

\* C10 (amended): a failure returned after populate_area failed carries the
\* provider's error unchanged; every other failure returned (alignment,
\* access denial) is EFAULT.
C10_FailureValues ==
    (Returned /\ result.kind = "Err") =>
        IF PopulateFailed
        THEN IsRegion /\ result.errno = populate_answer
        ELSE result.errno = EFAULT

\* check_region has returned the provider's ENOMEM
C10_Witness ==
    /\ IsRegion /\ Returned
    /\ PopulateFailed
    /\ populate_answer = ENOMEM
    /\ result = Err(ENOMEM)

\* --------------------------------------------------------------- C11
\* the running scan is inside the closure given to access_user_memory
InBody == IsScan /\ pc = "cnt_loop"

\* C11 (as claimed): at every point of the closure run by access_user_memory
\* the calling context's flag is true, also after a scope nested on the same
\* context has returned; every raw read is made with the flag true; once
\* access_user_memory has returned, with Ok or with Err, the flag is false.
C11_FlagTrueThroughoutBody ==
    /\ InBody => is_accessing_user_memory(cpu)
    /\ IsScan => \A j \in 1 .. Len(reads) : reads[j].flag
    /\ (IsScan /\ Returned /\ calls # <<>>) => ~is_accessing_user_memory(cpu)

\* --------------------------------------------------------------- C12
\* a page at or above the page of start does not permit access_flags
DeniedAbove == \E p \in PageOf(start) .. (NumPages - 1) : ~Permitted(p)
\* the pages queried ascend: `page` never came back to a lower address
QueriesAscend == \A n \in 2 .. Len(calls) : calls[n].start > calls[n - 1].start

\* C12 (as claimed): a scan from an aligned start with a sentinel or a denied
\* page at or above start terminates by returning: it neither panics nor
\* leaves the address space, `page` never wraps around the top, and the scan
\* makes at most one query per page from the page of start upwards and reads
\* at most the elements up to the first sentinel.
C12_ScanTerminates ==
    (IsScan /\ ScanAligned /\ (HasSentinel \/ DeniedAbove)) =>
        /\ pc \notin {"panicked", "undefined"}
        /\ QueriesAscend
        /\ Len(calls) <= NumPages - PageOf(start)
        /\ Len(reads) <= MaxBuf + 1

\* --------------------------------------------------------------- C13
\* C13 (as claimed): on a region the provider permits and can populate,
\* every call of check_region with given arguments, the first as well as a
\* repeated one, ends by returning Ok after the same two provider calls, which
\* the arguments alone determine: check_region_access over
\* [start, start + size) with access_flags, then populate_area over the
\* page-aligned superset.
C13_SameCallsEveryTime ==
    (/\ IsRegion
     /\ pc \in {"done", "panicked"}
     /\ RegionAligned /\ RegionPermitted /\ populate_answer = "Ok")
        => /\ result = Ok
           /\ calls = <<AccessCall(start, layout.size, access_flags),
                        PopulateCall(SupersetStart, SupersetEnd - SupersetStart)>>

\* --------------------------------------------------------------- C14
\* the call of frame fr is between `*v = true` and `*v = false`: in the
\* closure (where it may have come to a stop) or just back from it
InScopeFrame(fr) ==
    /\ fr.op = "check_null_terminated"
    /\ fr.pc \in {"cnt_loop", "cnt_exit", "panicked", "undefined"}
\* context c has a call, running or suspended, inside its scope
InScope(c) ==
    \/ cpu = c /\ InScopeFrame(Frame)
    \/ \E i \in 1 .. Len(suspended[c]) : InScopeFrame(suspended[c][i])

\* C14: under every interleaving of scans on the contexts,
\* is_accessing_user_memory() is true on a context only while that context
\* itself has a call inside its scope, whatever the other contexts are doing,
\* and a step changes no flag but that of the context it runs on, when it
\* enters or leaves the scope.
C14_FlagPerContext ==
    /\ [](\A c \in Contexts : is_accessing_user_memory(c) => InScope(c))
    /\ [][\A c \in Contexts :
              ACCESSING_USER_MEM'[c] # ACCESSING_USER_MEM[c]
                  => (c = cpu /\ pc \in {"cnt_enter", "cnt_exit"})]_vars

\* context 1 has run a scan to its end while context 0 stays inside its scope
C14_Witness ==
    /\ IsScan /\ Returned /\ cpu = 1
    /\ reads # <<>> /\ \A j \in 1 .. Len(reads) : reads[j].flag
    /\ suspended[0] # <<>>
    /\ InScopeFrame(suspended[0][1])
    /\ is_accessing_user_memory(0)
    /\ ~is_accessing_user_memory(1)

\* --------------------------------------------------------------- C15
\* C15: nullable() returns None exactly when the address of the handle is
\* zero and otherwise Some of the handle itself, is_null() is true exactly when
\* the address is zero, cast::<U>() returns a handle of element type U with
\* the address unchanged, whatever its alignment; none of the three calls the
\* provider, reads user memory or touches the flag.
C15_AccessorsUseAddressOnly ==
    /\ out.fn = "nullable" =>
          /\ out.value = None <=> address(out.self) = 0
          /\ out.value # None => out.value = Some(out.self)
          /\ handle = out.self
    /\ out.fn = "is_null" =>
          /\ out.value <=> address(out.self) = 0
          /\ handle = out.self
    /\ out.fn = "cast" =>
          /\ address(out.value) = address(out.self)
          /\ out.value.elem = out.to
          /\ handle = out.value
    /\ out.fn # "none" =>
          /\ calls = <<>> /\ reads = <<>>
          /\ \A c \in Contexts : ~is_accessing_user_memory(c)

\* a handle at the odd address 1 has been cast to a handle of u16
C15_Witness ==
    /\ out.fn = "cast"
    /\ address(out.self) = 1
    /\ out.to = Layout(2, 2)
    /\ address(handle) = 1

\* --------------------------------------------------------------- C16
\* C16: check_region calls the provider only after the alignment test passed,
\* check_region_access first and at most once, populate_area at most once and
\* only after check_region_access granted the range; after a failed alignment
\* test or a denial it has returned EFAULT without a further call; when it has
\* returned Ok it has called each provider function exactly once.
C16_StopsAtFirstFailure ==
    IsRegion =>
        /\ Len(calls) <= 2
        /\ Len(calls) >= 1 => IsAccessCall(calls[1])
        /\ Len(calls) = 2 => Granted(calls[1]) /\ IsPopulateCall(calls[2])
        /\ ~RegionAligned => calls = <<>> /\ result = Err(EFAULT)
        /\ SomeDenied => Len(calls) = 1 /\ Returned /\ result = Err(EFAULT)
        /\ (Returned /\ result = Ok) => Len(Queries) = 1 /\ Len(Populates) = 1
        /\ (Returned /\ RegionAligned /\ ~SomeDenied) => Len(calls) = 2

\* check_region has returned after a denial, on a region populate_area
\* would have populated
C16_Witness ==
    /\ IsRegion /\ Returned
    /\ RegionAligned
    /\ SomeDenied
    /\ populate_answer = "Ok"
    /\ layout.size > PAGE_SIZE_4K
    /\ result = Err(EFAULT)

\* --------------------------------------------------------------- C17
\* C17: a scan whose start is not aligned for T has returned EFAULT as soon
\* as it was called: the calling context's flag was not set, and the scan
\* made no call of check_region_access and no raw read.
C17_MisalignedScan ==
    (IsScan /\ ~ScanAligned) =>
        /\ Returned
        /\ result = Err(EFAULT)
        /\ ~is_accessing_user_memory(cpu)
        /\ calls = <<>>
        /\ reads = <<>>

\* a scan of u16 from an odd address on readable pages, over non-zero memory
C17_Witness ==
    /\ IsScan /\ Returned
    /\ layout = Layout(2, 2)
    /\ start % 2 = 1
    /\ \A p \in Pages : Permitted(p)
    /\ mem # {}
    /\ result = Err(EFAULT)

\* --------------------------------------------------------------- C18
\* C18 (as claimed): every raw read of a scan is made while
\* is_accessing_user_memory() is true on the calling context, and the flag of
\* a context is true only while a call of that context is inside the closure
\* given to access_user_memory.
C18_ReadsWithFlagTrue ==
    /\ IsScan => \A j \in 1 .. Len(reads) : reads[j].flag
    /\ \A c \in Contexts : is_accessing_user_memory(c) => InScope(c)

PagesRead == UNION {ReadPages(reads[j].addr, layout.size) : j \in 1 .. Len(reads)}

\* C20: a scan calls check_region_access and nothing else of the provider,
\* never populate_area; a page has backing only once a raw read of the scan
\* has touched it, so the first read on each page is made on a page without
\* backing.
C20_ScanNeverPopulates ==
    IsScan =>
        /\ Populates = <<>>
        /\ \A n \in 1 .. Len(calls) : IsAccessCall(calls[n])
        /\ backed = PagesRead
        /\ \A j \in 1 .. Len(reads) :
              reads[j].backed <=>
                  (ReadPages(reads[j].addr, layout.size) \subseteq
                      UNION {ReadPages(reads[i].addr, layout.size) : i \in 1 .. (j - 1)})

\* a scan over two permitted pages has returned Ok: its reads on each page
\* met a page without backing, the flag true
C20_Witness ==
    /\ IsScan /\ Returned
    /\ result.kind = "Ok"
    /\ Len(Queries) = 2
    /\ Len(reads) >= 2
    /\ ~reads[1].backed /\ reads[1].flag
    /\ ~reads[Len(reads)].backed /\ reads[Len(reads)].flag
    /\ Cardinality(backed) = 2

====
